---- MODULE Spec2Model ----
(***************************************************************************)
(* Model of tester.py: a harness that loads test programs, drives a CPU    *)
(* simulator one clock step at a time, halts the run on an out-of-bounds   *)
(* program counter or on a write-free revisit of a program counter, and    *)
(* then evaluates assertions against the final register file and data      *)
(* memory.                                                                 *)
(*                                                                         *)
(* Four specifications share the variables:                                *)
(*   Spec      run_test: step loop followed by assertion evaluation        *)
(*   SpecEval  the evaluation phase of run_test over arbitrary stores      *)
(*   SpecParse parse_assertion / int_or_hex                                *)
(*   SpecLoad  read_tests                                                  *)
(***************************************************************************)
EXTENDS Integers, Sequences, FiniteSets, TLC

(***************************************************************************)
(* Bounds of the model.                                                    *)
(***************************************************************************)
MaxOOB == 2        \* largest out_of_bounds (number of real instructions)
MaxWrites == 1     \* most writes the simulator performs in one step
MaxAsserts == 3    \* longest list of assertions evaluated under SpecEval
MaxDigits == 2     \* most digits of an integer literal under SpecParse
MaxGroups == 2     \* most test groups given to read_tests under SpecLoad

\* The program-counter wire takes the values 0 .. MaxOOB + 1, so that it can
\* stop short of, hit, and overshoot out_of_bounds.
PCs == 0 .. (MaxOOB + 1)
\* Addresses and values the simulator writes.
Addrs == {0}
Vals == {0, 1}

(***************************************************************************)
(* Program constants.                                                      *)
(***************************************************************************)
NOP == 536870912   \* 0x20000000, addi $zero, $zero, 0

Blocks == {"i_mem", "d_mem", "rf"}

VARIABLES
  test,            \* run_test: the test case being run
  state,           \* run_test: state of the step loop
  pc,              \* run_test: last program counter read, -1 while unbound
  pc_since_write,  \* run_test: pcs visited since the last real write
  any_writes,      \* run_test: the flag of the latest drain
  mem_map,         \* run_test: the three observed stores
  mem_updates,     \* run_test: the three update queues
  out,             \* run_test: headline messages of the latest iteration
  report,          \* run_test: result of the evaluation phase, <<>> before
  ev,              \* which branch the latest operation took
  realWrite,       \* history: the latest iteration drained a real write
  cleanSince,      \* history: pcs visited with no real write drained since
  noWriteRun,      \* history: consecutive completed write-free iterations
  imem_written,    \* history: the simulator wrote instruction memory
  stmt,            \* parse_assertion: the statement given
  parsed,          \* parse_assertion: its outcome, <<>> before the call
  test_groups,     \* read_tests: the groups given
  gi,              \* read_tests: index of the next group of the for loop
  tests,           \* read_tests: the tests loaded so far
  load_state,      \* read_tests: LOADING, RETURNED or ABORTED
  diag             \* read_tests: what the latest group printed

runVars == <<test, state, pc, pc_since_write, any_writes, mem_map, mem_updates,
             out, report, ev, realWrite, cleanSince, noWriteRun, imem_written>>
parseVars == <<stmt, parsed>>
loadVars == <<test_groups, gi, tests, load_state, diag>>
vars == <<runVars, parseVars, loadVars>>

(***************************************************************************)
(* DictWatcher: a dict whose __setitem__ reports (key, value, old_value)   *)
(* to its listeners.  A dict is a function on the set of its keys; the     *)
(* result of dict.get is <<>> for None and <<v>> for a stored value v.     *)
(***************************************************************************)
DictGet(d, key) == IF key \in DOMAIN d THEN <<d[key]>> ELSE <<>>

DictSet(d, key, value) == (key :> value) @@ d

\* old or 0
OrZero(old) == IF old = <<>> THEN 0 ELSE old[1]

\* DictWatcher.get(key, default), inherited from dict
GetDefault(d, key, default) == IF key \in DOMAIN d THEN d[key] ELSE default

\* One write of the simulator through DictWatcher.__setitem__ with the
\* listener installed by run_test: the store changes and the update is queued.
SetItem(mm, mu, w) ==
  LET old == DictGet(mm[w.name], w.addr)
      up == [name |-> w.name, addr |-> w.addr, value |-> w.value, old |-> old]
  IN [mm |-> [mm EXCEPT ![w.name] = DictSet(@, w.addr, w.value)],
      mu |-> [mu EXCEPT ![w.name] = Append(@, up)]]

RECURSIVE ApplyWrites(_, _, _)
ApplyWrites(mm, mu, ws) ==
  IF ws = <<>> THEN [mm |-> mm, mu |-> mu]
  ELSE LET r == SetItem(mm, mu, Head(ws))
       IN ApplyWrites(r.mm, r.mu, Tail(ws))

(***************************************************************************)
(* run_test: the step loop.                                                *)
(***************************************************************************)
None == <<>>

\* Mutant of PastLastInstruction: only the exact hit counts
PastLastInstructionExact(p, oob) == p = oob

\* pc >= out_of_bounds
PastLastInstruction(p, oob) == p >= oob

\* assembly[pc] and instructions[pc] can be read for the trace line
TraceLineRenders(p, t) == p < Len(t.assembly) /\ p < Len(t.instructions)

\* pc in pc_since_write
LoopDetected(p, visited) == p \in visited

\* Mutant of NextPcSinceWrite: a real write does not clear the set
NextPcSinceWriteNoClear(visited, p, aw) == visited \cup {p}

\* Mutant of NextPcSinceWrite: a write-free pc is not recorded
NextPcSinceWriteNoAdd(visited, p, aw) == IF aw THEN {} ELSE visited

\* if any_writes: pc_since_write.clear() else: pc_since_write.add(pc)
NextPcSinceWrite(visited, p, aw) == IF aw THEN {} ELSE visited \cup {p}

\* value != old, with old = old or 0
ValueChanged(up) == up.value # OrZero(up.old)

\* The first block, in the order of mem_updates, whose queue is not empty
FirstPending(mu) ==
  IF mu["i_mem"] # <<>> THEN "i_mem"
  ELSE IF mu["d_mem"] # <<>> THEN "d_mem"
  ELSE IF mu["rf"] # <<>> THEN "rf"
  ELSE "none"

Pending(mu) == Len(mu["i_mem"]) + Len(mu["d_mem"]) + Len(mu["rf"])

\* The drain loop, stopped by a KeyboardInterrupt after `limit` updates.
\* r carries mu, any_writes, out, fatal (exit() on an i_mem update) and the
\* history flag real (a d_mem or rf update with value # old was popped).
\* Of the messages, out keeps the trace line and the errors, not the line
\* printed for each rf or d_mem update.
RECURSIVE Drain(_, _)
Drain(r, limit) ==
  LET name == FirstPending(r.mu)
  IN IF limit = 0 \/ name = "none" THEN r
     ELSE LET up == Head(r.mu[name])
              r2 == [mu |-> [r.mu EXCEPT ![name] = Tail(@)],
                     any_writes |-> r.any_writes \/ ValueChanged(up),
                     out |-> IF name = "i_mem"
                             THEN Append(r.out, "error_write_to_i_mem")
                             ELSE r.out,
                     popped |-> r.popped + 1,
                     fatal |-> name = "i_mem",
                     real |-> r.real \/ (name \in {"d_mem", "rf"}
                                         /\ up.value # OrZero(up.old))]
          IN IF r2.fatal THEN r2 ELSE Drain(r2, limit - 1)

DrainStart(mu, out0) ==
  [mu |-> mu, any_writes |-> FALSE, out |-> out0, popped |-> 0,
   fatal |-> FALSE, real |-> FALSE]

Write == [name : Blocks, addr : Addrs, value : Vals]

RECURSIVE SeqsUpTo(_, _)
SeqsUpTo(S, n) ==
  IF n = 0 THEN {<<>>}
  ELSE LET shorter == SeqsUpTo(S, n - 1)
       IN shorter \cup {Append(q, x) : q \in shorter, x \in S}

StepWrites == SeqsUpTo(Write, MaxWrites)

WroteImem(ws) == \E i \in 1 .. Len(ws) : ws[i].name = "i_mem"

(***************************************************************************)
(* run_test: the evaluation phase.                                         *)
(***************************************************************************)
\* Mutant of EvalOne: num_valid is counted before the validity test
EvalOneCountsInvalid(acc, a, mm) ==
  IF ~a.valid
  THEN [acc EXCEPT !.num_valid = @ + 1, !.lines = Append(@, "!!")]
  ELSE LET value == GetDefault(mm[a.mem_block], a.index, 0)
       IN IF value = a.value
          THEN [acc EXCEPT !.num_valid = @ + 1, !.num_passed = @ + 1,
                           !.lines = Append(@, "OK")]
          ELSE [acc EXCEPT !.num_valid = @ + 1, !.lines = Append(@, "X ")]

\* One pass of the for loop over the assertions
EvalOne(acc, a, mm) ==
  IF ~a.valid
  THEN [acc EXCEPT !.lines = Append(@, "!!")]
  ELSE LET value == GetDefault(mm[a.mem_block], a.index, 0)
       IN IF value = a.value
          THEN [acc EXCEPT !.num_valid = @ + 1, !.num_passed = @ + 1,
                           !.lines = Append(@, "OK")]
          ELSE [acc EXCEPT !.num_valid = @ + 1, !.lines = Append(@, "X ")]

RECURSIVE EvalLoop(_, _, _)
EvalLoop(acc, as, mm) ==
  IF as = <<>> THEN acc
  ELSE EvalLoop(EvalOne(acc, Head(as), mm), Tail(as), mm)

\* format(100.0 * num / den, '.0f'): the nearest integer, ties to even
Percent0f(num, den) ==
  LET q == (100 * num) \div den
      r == (100 * num) % den
  IN IF 2 * r > den THEN q + 1
     ELSE IF 2 * r < den THEN q
     ELSE IF q % 2 = 0 THEN q ELSE q + 1

Evaluation(as, mm) ==
  LET acc == EvalLoop([num_passed |-> 0, num_valid |-> 0, lines |-> <<>>],
                      as, mm)
      num_total == Len(as)
      num_invalid == num_total - acc.num_valid
      base == [num_passed |-> acc.num_passed, num_valid |-> acc.num_valid,
               num_total |-> num_total, lines |-> acc.lines]
  IN IF acc.num_valid = 0
     THEN base @@ [summary |-> IF num_total = 0 THEN "error_no_assertions"
                               ELSE "error_no_valid",
                   percentage |-> None, tail |-> "none"]
     ELSE base @@ [summary |-> "summary",
                   percentage |-> <<Percent0f(acc.num_passed, acc.num_valid)>>,
                   tail |-> IF num_invalid # 0 THEN "warning_invalid"
                            ELSE IF acc.num_passed = num_total
                                 THEN "congratulations"
                                 ELSE "none"]

(***************************************************************************)
(* int_or_hex and parse_assertion.  A string is a sequence of characters.  *)
(* A statement is kept as the pieces ASSERT_REGEX splits it into: block,   *)
(* index, value, op and operand; op = "" stands for a statement without    *)
(* the operator clause, and fullmatch succeeds when each piece matches its *)
(* group of the regular expression.                                        *)
(***************************************************************************)
DecDigits == <<"0", "1", "2", "3", "4", "5", "6", "7", "8", "9">>
HexLower == <<"a", "b", "c", "d", "e", "f">>
HexUpper == <<"A", "B", "C", "D", "E", "F">>

IndexIn(c, chars) == CHOOSE i \in 1 .. Len(chars) : chars[i] = c
IsIn(c, chars) == \E i \in 1 .. Len(chars) : chars[i] = c

IsDecDigit(c) == IsIn(c, DecDigits)
IsHexDigit(c) == IsIn(c, DecDigits) \/ IsIn(c, HexLower) \/ IsIn(c, HexUpper)

DigitVal(c) ==
  IF IsIn(c, DecDigits) THEN IndexIn(c, DecDigits) - 1
  ELSE IF IsIn(c, HexLower) THEN IndexIn(c, HexLower) + 9
  ELSE IndexIn(c, HexUpper) + 9

StartsWith(s, prefix) ==
  Len(s) >= Len(prefix) /\ SubSeq(s, 1, Len(prefix)) = prefix

Drop(s, n) == SubSeq(s, n + 1, Len(s))

HasHexPrefix(s) == StartsWith(s, <<"0", "x">>) \/ StartsWith(s, <<"0", "X">>)

\* One alternative pair of ASSERT_REGEX: -?0[xX][0-9a-fA-F]+|-?\d+
MatchesInteger(s) ==
  LET body == IF StartsWith(s, <<"-">>) THEN Drop(s, 1) ELSE s
  IN \/ /\ HasHexPrefix(body)
        /\ Len(body) >= 3
        /\ \A i \in 3 .. Len(body) : IsHexDigit(body[i])
     \/ /\ Len(body) >= 1
        /\ \A i \in 1 .. Len(body) : IsDecDigit(body[i])

RECURSIVE DigitsValue(_, _, _)
DigitsValue(digits, base, acc) ==
  IF digits = <<>> THEN acc
  ELSE DigitsValue(Tail(digits), base, acc * base + DigitVal(Head(digits)))

\* Python's int(s, base) for base 10 and 16: an optional sign, for base 16 an
\* optional 0x prefix, then at least one digit of the base; ValueError else.
PyInt(s, base) ==
  LET neg == StartsWith(s, <<"-">>)
      unsigned == IF neg \/ StartsWith(s, <<"+">>) THEN Drop(s, 1) ELSE s
      digits == IF base = 16 /\ HasHexPrefix(unsigned)
                THEN Drop(unsigned, 2) ELSE unsigned
      good == /\ digits # <<>>
              /\ \A i \in 1 .. Len(digits) :
                   IF base = 16 THEN IsHexDigit(digits[i])
                   ELSE IsDecDigit(digits[i])
  IN IF ~good THEN [ok |-> FALSE, val |-> 0]
     ELSE [ok |-> TRUE,
           val |-> (IF neg THEN -1 ELSE 1) * DigitsValue(digits, base, 0)]

\* int_or_hex(s)
int_or_hex(s) == IF HasHexPrefix(s) THEN PyInt(s, 16) ELSE PyInt(s, 10)

\* Python's &, | and ^ on integers of any sign (two's complement without end)
RECURSIVE BitAnd(_, _)
BitAnd(a, b) ==
  IF a = 0 \/ b = 0 THEN 0
  ELSE IF a = -1 THEN b
  ELSE IF b = -1 THEN a
  ELSE (IF a % 2 = 1 /\ b % 2 = 1 THEN 1 ELSE 0)
       + 2 * BitAnd(a \div 2, b \div 2)

RECURSIVE BitOr(_, _)
BitOr(a, b) ==
  IF a = 0 THEN b
  ELSE IF b = 0 THEN a
  ELSE IF a = -1 \/ b = -1 THEN -1
  ELSE (IF a % 2 = 1 \/ b % 2 = 1 THEN 1 ELSE 0)
       + 2 * BitOr(a \div 2, b \div 2)

RECURSIVE BitXor(_, _)
BitXor(a, b) ==
  IF a = 0 THEN b
  ELSE IF b = 0 THEN a
  ELSE IF a = -1 THEN -b - 1
  ELSE IF b = -1 THEN -a - 1
  ELSE (((a % 2) + (b % 2)) % 2) + 2 * BitXor(a \div 2, b \div 2)

\* The dictionaries parse_assertion returns (the 'str' entry, used only for
\* printing, is left out)
ValidAssertion(b, i, v) ==
  [valid |-> TRUE, mem_block |-> b, index |-> i, value |-> v]

InvalidAssertion == [valid |-> FALSE]

\* An exception leaving a function
Raise(e) == [raised |-> e]

Raised(r) == "raised" \in DOMAIN r

\* ASSERT_REGEX.fullmatch(stmt)
FullMatch(st) ==
  /\ st.block \in {"rf", "d_mem"}
  /\ MatchesInteger(st.index)
  /\ MatchesInteger(st.value)
  /\ \/ st.op = ""
     \/ st.op \in {"&", "|", "^"} /\ MatchesInteger(st.operand)

\* Lines 127-141 on the three integers: the folded value in a Valid
\* assertion, or the ValueError int raised
Fold(st, index, value, other) ==
  IF ~index.ok \/ ~value.ok THEN Raise("ValueError")
  ELSE IF st.op = ""
  THEN ValidAssertion(st.block, index.val, value.val)
  ELSE IF ~other.ok THEN Raise("ValueError")
  ELSE ValidAssertion(st.block, index.val,
                      IF st.op = "&" THEN BitAnd(value.val, other.val)
                      ELSE IF st.op = "|" THEN BitOr(value.val, other.val)
                      ELSE BitXor(value.val, other.val))

\* parse_assertion(stmt): an Invalid assertion, a Valid one, or an exception
\* that leaves the function (int raising ValueError)
parse_assertion(st) ==
  IF ~FullMatch(st) THEN InvalidAssertion
  ELSE Fold(st, int_or_hex(st.index), int_or_hex(st.value),
            int_or_hex(st.operand))

(***************************************************************************)
(* The test cases run_test is given: what read_tests produces for a group  *)
(* with n instruction words and m parsed assembly lines.                   *)
(***************************************************************************)
MakeTest(name, words, assembly, assertions) ==
  [name |-> name,
   instructions |-> Append(words, NOP),
   assembly |-> Append(assembly, [str |-> "addi $zero, $zero, 0",
                                  section |-> "_out_of_bounds",
                                  offset |-> 0]),
   assertions |-> assertions,
   out_of_bounds |-> Len(words)]

\* m assembly lines of one section
AsmLines(m) ==
  [i \in 1 .. m |-> [str |-> "asm", section |-> "main", offset |-> i - 1]]

\* The tests of Spec: n words, with no assembly line, as many lines as words,
\* or one line more, and one assertion that holds or fails with rf[0] plus
\* one that did not parse.
RunAssertions == <<ValidAssertion("rf", 0, 1), InvalidAssertion>>

RunTests ==
  UNION {{MakeTest("t", [i \in 1 .. n |-> 0], AsmLines(m), RunAssertions) :
            m \in {0, n, n + 1}} : n \in 1 .. MaxOOB}

InstMap(instructions) ==
  [a \in 0 .. (Len(instructions) - 1) |-> instructions[a + 1]]

IdleRun ==
  /\ test = <<>>
  /\ state = "IDLE"
  /\ pc = -1
  /\ pc_since_write = {}
  /\ any_writes = FALSE
  /\ mem_map = <<>>
  /\ mem_updates = <<>>
  /\ out = <<>>
  /\ report = None
  /\ ev = "init"
  /\ realWrite = FALSE
  /\ cleanSince = {}
  /\ noWriteRun = 0
  /\ imem_written = FALSE

IdleParse == stmt = <<>> /\ parsed = <<>>
IdleLoad ==
  /\ test_groups = <<>> /\ gi = 1 /\ tests = <<>>
  /\ load_state = "RETURNED" /\ diag = <<>>

InitRun(t) ==
  /\ test = t
  /\ state = "RUNNING"
  /\ pc = -1
  /\ pc_since_write = {}
  /\ any_writes = FALSE
  /\ mem_map = [i_mem |-> InstMap(t.instructions), d_mem |-> <<>>, rf |-> <<>>]
  /\ mem_updates = [i_mem |-> <<>>, d_mem |-> <<>>, rf |-> <<>>]
  /\ out = <<>>
  /\ report = None
  /\ ev = "init"
  /\ realWrite = FALSE
  /\ cleanSince = {}
  /\ noWriteRun = 0
  /\ imem_written = FALSE

Init ==
  /\ \E t \in RunTests : InitRun(t)
  /\ IdleParse
  /\ IdleLoad

Running == state = "RUNNING" /\ report = None

\* The state after sim.step({}) performed the writes ws
AfterStep(ws) == ApplyWrites(mem_map, mem_updates, ws)

\* sim.step raises: the trace is rendered and the process exits
StepRaises ==
  /\ Running
  /\ \E ws \in StepWrites :
       LET s == AfterStep(ws) IN
       /\ mem_map' = s.mm
       /\ mem_updates' = s.mu
       /\ imem_written' = (imem_written \/ WroteImem(ws))
  /\ state' = "HALTED_ERROR"
  /\ out' = <<"render_trace", "traceback">>
  /\ ev' = "step_raised"
  /\ realWrite' = FALSE
  /\ UNCHANGED <<test, pc, pc_since_write, any_writes, report, cleanSince,
                 noWriteRun>>
  /\ UNCHANGED <<parseVars, loadVars>>

\* KeyboardInterrupt while sim.step runs
StepInterrupted ==
  /\ Running
  /\ \E ws \in StepWrites :
       LET s == AfterStep(ws) IN
       /\ mem_map' = s.mm
       /\ mem_updates' = s.mu
       /\ imem_written' = (imem_written \/ WroteImem(ws))
  /\ state' = "HALTED_INTERRUPT"
  /\ out' = <<"stopped_by_user", "warning_assertions">>
  /\ ev' = "step_interrupted"
  /\ realWrite' = FALSE
  /\ UNCHANGED <<test, pc, pc_since_write, any_writes, report, cleanSince,
                 noWriteRun>>
  /\ UNCHANGED <<parseVars, loadVars>>

\* pc >= out_of_bounds: break
HaltBounds ==
  /\ Running
  /\ \E ws \in StepWrites, p \in PCs :
       LET s == AfterStep(ws) IN
       /\ PastLastInstruction(p, test.out_of_bounds)
       /\ mem_map' = s.mm
       /\ mem_updates' = s.mu
       /\ imem_written' = (imem_written \/ WroteImem(ws))
       /\ pc' = p
       /\ out' = <<"past_last">> \o
                 (IF p > test.out_of_bounds THEN <<"warning_past">> ELSE <<>>)
  /\ state' = "HALTED_BOUNDS"
  /\ ev' = "bounds"
  /\ realWrite' = FALSE
  /\ UNCHANGED <<test, pc_since_write, any_writes, report, cleanSince,
                 noWriteRun>>
  /\ UNCHANGED <<parseVars, loadVars>>

\* assembly[pc] raises IndexError, which nothing catches
TraceFails ==
  /\ Running
  /\ \E ws \in StepWrites, p \in PCs :
       LET s == AfterStep(ws) IN
       /\ ~PastLastInstruction(p, test.out_of_bounds)
       /\ ~TraceLineRenders(p, test)
       /\ mem_map' = s.mm
       /\ mem_updates' = s.mu
       /\ imem_written' = (imem_written \/ WroteImem(ws))
       /\ pc' = p
  /\ state' = "CRASHED"
  /\ out' = <<"traceback">>
  /\ ev' = "trace_failed"
  /\ realWrite' = FALSE
  /\ UNCHANGED <<test, pc_since_write, any_writes, report, cleanSince,
                 noWriteRun>>
  /\ UNCHANGED <<parseVars, loadVars>>

\* The iteration reaches the drain loop with pc = p
ReachesDrain(p) ==
  /\ ~PastLastInstruction(p, test.out_of_bounds)
  /\ TraceLineRenders(p, test)

\* The drain loop run to its end on the queues mu, after the trace line
FullDrain(mu) == Drain(DrainStart(mu, <<"trace">>), Pending(mu))

\* An i_mem update is popped: exit()
ImemAbort ==
  /\ Running
  /\ \E ws \in StepWrites, p \in PCs :
       LET s == AfterStep(ws)
           d == FullDrain(s.mu) IN
       /\ ReachesDrain(p)
       /\ d.fatal
       /\ mem_map' = s.mm
       /\ mem_updates' = d.mu
       /\ imem_written' = (imem_written \/ WroteImem(ws))
       /\ pc' = p
       /\ any_writes' = d.any_writes
       /\ out' = d.out
       /\ realWrite' = d.real
  /\ state' = "HALTED_ERROR"
  /\ ev' = "imem_abort"
  /\ UNCHANGED <<test, pc_since_write, report, cleanSince, noWriteRun>>
  /\ UNCHANGED <<parseVars, loadVars>>

\* KeyboardInterrupt after the trace line, k updates into the drain loop
DrainInterrupted ==
  /\ Running
  /\ \E ws \in StepWrites, p \in PCs :
       LET s == AfterStep(ws) IN
       \E k \in 0 .. Pending(s.mu) :
         LET d == Drain(DrainStart(s.mu, <<"trace">>), k) IN
         /\ ReachesDrain(p)
         /\ ~d.fatal
         /\ mem_map' = s.mm
         /\ mem_updates' = d.mu
         /\ imem_written' = (imem_written \/ WroteImem(ws))
         /\ pc' = p
         /\ any_writes' = d.any_writes
         /\ out' = d.out \o <<"stopped_by_user", "warning_assertions">>
         /\ realWrite' = d.real
  /\ state' = "HALTED_INTERRUPT"
  /\ ev' = "drain_interrupted"
  /\ UNCHANGED <<test, pc_since_write, report, cleanSince, noWriteRun>>
  /\ UNCHANGED <<parseVars, loadVars>>

\* pc in pc_since_write: break
HaltLoop ==
  /\ Running
  /\ \E ws \in StepWrites, p \in PCs :
       LET s == AfterStep(ws)
           d == FullDrain(s.mu) IN
       /\ ReachesDrain(p)
       /\ ~d.fatal
       /\ LoopDetected(p, pc_since_write)
       /\ mem_map' = s.mm
       /\ mem_updates' = d.mu
       /\ imem_written' = (imem_written \/ WroteImem(ws))
       /\ pc' = p
       /\ any_writes' = d.any_writes
       /\ out' = Append(d.out, "loop_detected")
       /\ realWrite' = d.real
       /\ cleanSince' = (IF d.real THEN {} ELSE cleanSince)
  /\ state' = "HALTED_LOOP"
  /\ ev' = "loop"
  /\ UNCHANGED <<test, pc_since_write, report, noWriteRun>>
  /\ UNCHANGED <<parseVars, loadVars>>

\* The iteration completes and the loop goes round
Continue ==
  /\ Running
  /\ \E ws \in StepWrites, p \in PCs :
       LET s == AfterStep(ws)
           d == FullDrain(s.mu) IN
       /\ ReachesDrain(p)
       /\ ~d.fatal
       /\ ~LoopDetected(p, pc_since_write)
       /\ mem_map' = s.mm
       /\ mem_updates' = d.mu
       /\ imem_written' = (imem_written \/ WroteImem(ws))
       /\ pc' = p
       /\ any_writes' = d.any_writes
       /\ out' = d.out
       /\ realWrite' = d.real
       /\ pc_since_write' = NextPcSinceWrite(pc_since_write, p, d.any_writes)
       /\ cleanSince' = (IF d.real THEN {} ELSE cleanSince) \cup {p}
       /\ noWriteRun' = (IF d.real THEN 0 ELSE noWriteRun + 1)
  /\ state' = "RUNNING"
  /\ ev' = "continue"
  /\ UNCHANGED <<test, report>>
  /\ UNCHANGED <<parseVars, loadVars>>

\* The code after the loop: every assertion is evaluated and summarised
Evaluate ==
  /\ state \in {"HALTED_BOUNDS", "HALTED_LOOP", "HALTED_INTERRUPT"}
  /\ report = None
  /\ report' = Evaluation(test.assertions, mem_map)
  /\ ev' = "evaluate"
  /\ UNCHANGED <<test, state, pc, pc_since_write, any_writes, mem_map,
                 mem_updates, out, realWrite, cleanSince, noWriteRun,
                 imem_written>>
  /\ UNCHANGED <<parseVars, loadVars>>

Next ==
  \/ StepRaises
  \/ StepInterrupted
  \/ HaltBounds
  \/ TraceFails
  \/ ImemAbort
  \/ DrainInterrupted
  \/ HaltLoop
  \/ Continue
  \/ Evaluate

Spec == Init /\ [][Next]_vars

(***************************************************************************)
(* Properties of the step loop, checked under Spec.                        *)
(***************************************************************************)
Messages(o) == {o[i] : i \in 1 .. Len(o)}

\* The transition is a loop iteration in which sim.step returned and the
\* program counter was read
ReadsPc == state = "RUNNING" /\ ev' \in {"bounds", "trace_failed",
                                         "imem_abort", "drain_interrupted",
                                         "loop", "continue"}

\* The transition is a loop iteration that printed its trace line and went
\* on to the drain loop and the loop check (lines 319-350)
ReachesUpdates == ReadsPc /\ "trace" \in Messages(out')

\* The iteration stops before the loop check of line 344: an i_mem update is
\* popped, or the user interrupts
CutShort == ev' \in {"imem_abort", "drain_interrupted"}

\* C1: an iteration that reads pc >= out_of_bounds halts in HALTED_BOUNDS,
\* whether pc equals or exceeds out_of_bounds; it prints no trace line and
\* leaves the queues as the step left them; after HALTED_BOUNDS the simulator
\* is never stepped again (pc, stores and queues stay as they are).
BoundsHalt ==
  [][/\ (ReadsPc /\ pc' >= test.out_of_bounds)
          => /\ state' = "HALTED_BOUNDS"
             /\ "trace" \notin Messages(out')
             /\ "past_last" \in Messages(out')
             /\ pc_since_write' = pc_since_write
     /\ (state' = "HALTED_BOUNDS" /\ state = "RUNNING")
          => (ReadsPc /\ pc' >= test.out_of_bounds)
     /\ state = "HALTED_BOUNDS"
          => /\ UNCHANGED <<state, pc, mem_map, mem_updates, pc_since_write>>
             /\ ev' = "evaluate"]_vars

\* C1 witness: the run went round the loop and then halted on a pc that
\* overshoots out_of_bounds.
BoundsHaltWitness ==
  /\ state = "HALTED_BOUNDS"
  /\ pc > test.out_of_bounds
  /\ noWriteRun > 0

\* C2 as stated, narrowed to the iterations that printed their trace line:
\* every such iteration with a pc < out_of_bounds halts in HALTED_LOOP when
\* pc is in pc_since_write, and otherwise goes on, clearing the set when it
\* drained a real write and adding pc when it drained none.
LoopRuleAsClaimed ==
  [][(ReachesUpdates /\ pc' < test.out_of_bounds)
       => IF pc' \in pc_since_write
          THEN state' = "HALTED_LOOP"
          ELSE /\ state' = "RUNNING"
               /\ pc_since_write' = IF realWrite' THEN {}
                                    ELSE pc_since_write \cup {pc'}]_vars

\* C2 amended: the rule holds of every iteration with pc < out_of_bounds
\* that reaches the loop check of line 344.  An iteration that does not
\* reach it leaves the set alone and ends the loop: in HALTED_ERROR when it
\* pops an i_mem update, in HALTED_INTERRUPT when the user interrupts it, and
\* in the uncaught IndexError when assembly has no line for pc.
LoopRule ==
  [][(ReadsPc /\ pc' < test.out_of_bounds)
       => IF ev' = "trace_failed"
          THEN state' = "CRASHED" /\ pc_since_write' = pc_since_write
          ELSE IF CutShort
          THEN /\ state' \in {"HALTED_ERROR", "HALTED_INTERRUPT"}
               /\ pc_since_write' = pc_since_write
          ELSE IF pc' \in pc_since_write
          THEN state' = "HALTED_LOOP" /\ pc_since_write' = pc_since_write
          ELSE /\ state' = "RUNNING"
               /\ pc_since_write' = IF realWrite' THEN {}
                                    ELSE pc_since_write \cup {pc'}]_vars

\* C2 witness: a run that cleared the set on a real write, went on, and
\* halted on the revisit of a write-free pc.
LoopRuleWitness ==
  /\ state = "HALTED_LOOP"
  /\ mem_map["rf"] # <<>>
  /\ noWriteRun >= 2

\* C3 as stated: when the loop halts in HALTED_LOOP at pc, pc was visited by
\* an earlier iteration and no iteration since, the halting one included,
\* drained a real write.
LoopHaltIsWriteFree == state = "HALTED_LOOP" => pc \in cleanSince

\* C4 as stated: once the simulator has written instruction memory the run
\* is in HALTED_ERROR and no assertion is evaluated.
ImemWriteIsFatal ==
  imem_written => (state = "HALTED_ERROR" /\ report = None)

\* C5 as stated: whatever the number of assembly lines, the loop never ends
\* in an unhandled failure of the harness.
MismatchIsOnlyAWarning == state # "CRASHED"

\* C9 as stated: the loop ends in one of the four halt states; the
\* assertions are evaluated only after HALTED_BOUNDS, HALTED_LOOP or
\* HALTED_INTERRUPT, and never after a simulator exception or an
\* instruction-memory update.
LoopEndsAsClaimed ==
  /\ state \in {"RUNNING", "HALTED_BOUNDS", "HALTED_LOOP", "HALTED_ERROR",
                "HALTED_INTERRUPT"}
  /\ report # None
       => state \in {"HALTED_BOUNDS", "HALTED_LOOP", "HALTED_INTERRUPT"}
  /\ (state = "HALTED_ERROR" \/ imem_written) => report = None

PcSinceWriteInv ==
  /\ pc_since_write \subseteq 0 .. (test.out_of_bounds - 1)
  /\ Cardinality(pc_since_write) = noWriteRun

\* C10 as stated: pc_since_write is a subset of 0 .. out_of_bounds-1 with one
\* element per completed write-free iteration, and the iteration that follows
\* out_of_bounds of them, if sim.step returns and no real write is drained,
\* halts in HALTED_BOUNDS or HALTED_LOOP.
BoundedResponseAsClaimed ==
  /\ PcSinceWriteInv
  /\ [][/\ PcSinceWriteInv'
        /\ (ReadsPc /\ noWriteRun = test.out_of_bounds /\ ~realWrite')
             => state' \in {"HALTED_BOUNDS", "HALTED_LOOP"}]_vars

\* C10 amended: as C10, but the halting iteration ends in HALTED_ERROR when
\* it pops an i_mem update and in HALTED_INTERRUPT when the user interrupts
\* it; the loop never goes round after out_of_bounds write-free iterations.
BoundedResponse ==
  /\ PcSinceWriteInv
  /\ [][/\ PcSinceWriteInv'
        /\ (ReadsPc /\ noWriteRun = test.out_of_bounds)
             => \/ state' \in {"HALTED_BOUNDS", "HALTED_LOOP"}
                \/ ev' = "imem_abort" /\ state' = "HALTED_ERROR"
                \/ ev' = "drain_interrupted" /\ state' = "HALTED_INTERRUPT"]_vars

\* C10 witness: out_of_bounds >= 2 write-free iterations filled the set and
\* the next one halted on a revisit.
BoundedResponseWitness ==
  /\ state = "HALTED_LOOP"
  /\ test.out_of_bounds >= 2
  /\ noWriteRun = test.out_of_bounds
  /\ pc_since_write = 0 .. (test.out_of_bounds - 1)

(***************************************************************************)
(* SpecEval: the evaluation phase after a run that halted in HALTED_BOUNDS *)
(* with any contents of the register file and of data memory.              *)
(***************************************************************************)
EvalAddrs == {0, 1}
EvalVals == {0, 1}

PartialFns(D, V) == UNION {[S -> V] : S \in SUBSET D}

EvalAssertions ==
  {InvalidAssertion, ValidAssertion("rf", 0, 1), ValidAssertion("rf", 1, 0),
   ValidAssertion("d_mem", 1, 1), ValidAssertion("d_mem", -1, 0)}

InitEval ==
  /\ \E as \in SeqsUpTo(EvalAssertions, MaxAsserts),
        rfv \in PartialFns(EvalAddrs, EvalVals),
        dmv \in PartialFns(EvalAddrs, EvalVals) :
       /\ test = MakeTest("t", <<0>>, AsmLines(1), as)
       /\ mem_map = [i_mem |-> InstMap(<<0, NOP>>), d_mem |-> dmv, rf |-> rfv]
  /\ state = "HALTED_BOUNDS"
  /\ pc = 1
  /\ pc_since_write = {}
  /\ any_writes = FALSE
  /\ mem_updates = [i_mem |-> <<>>, d_mem |-> <<>>, rf |-> <<>>]
  /\ out = <<"past_last">>
  /\ report = None
  /\ ev = "bounds"
  /\ realWrite = FALSE
  /\ cleanSince = {}
  /\ noWriteRun = 0
  /\ imem_written = FALSE
  /\ IdleParse
  /\ IdleLoad

NextEval == Evaluate

SpecEval == InitEval /\ [][NextEval]_vars

\* The value the store of assertion a holds at its index, 0 when the address
\* was never written
StoredValue(a) ==
  IF a.index \in DOMAIN mem_map[a.mem_block]
  THEN mem_map[a.mem_block][a.index] ELSE 0

ValidIndices == {i \in 1 .. Len(test.assertions) : test.assertions[i].valid}

PassedIndices ==
  {i \in ValidIndices : StoredValue(test.assertions[i]) = test.assertions[i].value}

\* C8: after the evaluation, valid counts the Valid assertions, passed the
\* Valid ones whose stored value (0 if never written) equals the expected
\* value, passed <= valid <= total; an Invalid assertion gets the line "!!"
\* and no evaluation; a percentage, the nearest integer to 100*passed/valid,
\* is reported exactly when valid > 0, and an error otherwise.
EvaluationCounts ==
  report # None =>
    /\ report.num_total = Len(test.assertions)
    /\ report.num_valid = Cardinality(ValidIndices)
    /\ report.num_passed = Cardinality(PassedIndices)
    /\ report.num_passed <= report.num_valid
    /\ report.num_valid <= report.num_total
    /\ Len(report.lines) = Len(test.assertions)
    /\ \A i \in 1 .. Len(test.assertions) :
         /\ report.lines[i] = "!!" <=> i \notin ValidIndices
         /\ report.lines[i] = "OK" <=> i \in PassedIndices
    /\ report.summary = "summary" <=> report.num_valid > 0
    /\ report.percentage # None <=> report.num_valid > 0
    /\ report.num_valid > 0 =>
         LET d == report.percentage[1] * report.num_valid
                  - 100 * report.num_passed
         IN 2 * d <= report.num_valid /\ -2 * d <= report.num_valid
    /\ report.num_valid = 0 =>
         report.summary \in {"error_no_assertions", "error_no_valid"}

\* C8 witness: an evaluation with a passing, a failing and an Invalid
\* assertion, one of them read from an address that was never written.
EvaluationCountsWitness ==
  /\ report # None
  /\ report.num_passed = 1
  /\ report.num_valid = 2
  /\ report.num_total = 3
  /\ mem_map["d_mem"] = <<>>
  /\ \E i \in PassedIndices : test.assertions[i].mem_block = "d_mem"

(***************************************************************************)
(* SpecParse: parse_assertion on the statements built from the pieces      *)
(* below, those that match the grammar and those that do not.              *)
(***************************************************************************)
LiteralChars == {"0", "1", "F"}

\* The digit strings of at most n characters
DigitStrings(n) == SeqsUpTo(LiteralChars, n) \ {<<>>}

\* The integer literals with at most n digits: signed or not, decimal or
\* with either hexadecimal prefix
Literals(n) ==
  {sign \o prefix \o digits :
     sign \in {<<>>, <<"-">>},
     prefix \in {<<>>, <<"0", "x">>, <<"0", "X">>},
     digits \in DigitStrings(n)}

IndexLiterals == {<<"0">>, <<"-", "1">>, <<"0", "x", "1", "F">>, <<"F">>}

\* The statements handed to parse_assertion, with literals of at most n
\* digits: every block and index, with and without an operator clause
Statements(n) ==
  {[block |-> b, index |-> i, value |-> v, op |-> "", operand |-> <<>>] :
     b \in {"rf", "d_mem", "i_mem"}, i \in IndexLiterals, v \in Literals(n)}
  \cup
  {[block |-> "rf", index |-> <<"0">>, value |-> v, op |-> o, operand |-> w] :
     v \in Literals(n), o \in {"&", "|", "^", "+"}, w \in Literals(n)}

InitParse ==
  /\ stmt \in Statements(MaxDigits)
  /\ parsed = <<>>
  /\ IdleRun
  /\ IdleLoad

\* A call of parse_assertion
Parse ==
  /\ stmt # <<>>
  /\ parsed = <<>>
  /\ parsed' = parse_assertion(stmt)
  /\ UNCHANGED <<stmt, runVars, loadVars>>

NextParse == Parse

SpecParse == InitParse /\ [][NextParse]_vars

\* The grammar of the claim: a decimal or 0x-prefixed hexadecimal integer
\* that may be negative
IsInteger(s) ==
  LET body == IF s # <<>> /\ s[1] = "-" THEN Tail(s) ELSE s
  IN IF Len(body) >= 2 /\ body[1] = "0" /\ body[2] \in {"x", "X"}
     THEN Len(body) >= 3 /\ \A i \in 3 .. Len(body) : IsHexDigit(body[i])
     ELSE Len(body) >= 1 /\ \A i \in 1 .. Len(body) : IsDecDigit(body[i])

\* The integer a literal denotes
RECURSIVE Magnitude(_, _)
Magnitude(digits, base) ==
  IF digits = <<>> THEN 0
  ELSE DigitVal(digits[Len(digits)])
       + base * Magnitude(SubSeq(digits, 1, Len(digits) - 1), base)

Denotes(s) ==
  LET neg == s[1] = "-"
      body == IF neg THEN Tail(s) ELSE s
      hex == Len(body) >= 2 /\ body[2] \in {"x", "X"}
      m == IF hex THEN Magnitude(SubSeq(body, 3, Len(body)), 16)
           ELSE Magnitude(body, 10)
  IN IF neg THEN -m ELSE m

Grammatical(st) ==
  /\ st.block \in {"rf", "d_mem"}
  /\ IsInteger(st.index)
  /\ IsInteger(st.value)
  /\ st.op = "" \/ (st.op \in {"&", "|", "^"} /\ IsInteger(st.operand))

Folded(st) ==
  IF st.op = "" THEN Denotes(st.value)
  ELSE IF st.op = "&" THEN BitAnd(Denotes(st.value), Denotes(st.operand))
  ELSE IF st.op = "|" THEN BitOr(Denotes(st.value), Denotes(st.operand))
  ELSE BitXor(Denotes(st.value), Denotes(st.operand))

\* C6 as stated: for every statement of the grammar parse_assertion returns,
\* without raising, the Valid assertion with the block, the integer the index
\* denotes and the value folded with the operand.
ParsesTheGrammar ==
  (parsed # <<>> /\ Grammatical(stmt))
    => /\ ~Raised(parsed)
       /\ parsed = ValidAssertion(stmt.block, Denotes(stmt.index), Folded(stmt))

(***************************************************************************)
(* read_tests.  A group carries the contents of its files: the lines of    *)
(* the instruction file (strings), or what decoding the first line of a    *)
(* combined file gives, and the lines of the assembly/assertion file.  An  *)
(* info line is kept by what the code tests of it:                         *)
(*   blank      the empty line                                             *)
(*   comment    starts with '#', is no assertion                           *)
(*   label      ends with ':'                                              *)
(*   directive  starts with '.'                                            *)
(*   content    any other line                                             *)
(*   assert     starts with '#assert(' (hash) or 'assert(', with the       *)
(*              statement it holds                                         *)
(***************************************************************************)
\* Lines 165-170: the hex lines are read until one fails to parse
RECURSIVE ReadHexLines(_, _)
ReadHexLines(lines, acc) ==
  IF lines = <<>> THEN [ok |-> TRUE, words |-> acc]
  ELSE IF StartsWith(Head(lines), <<"#">>)
  THEN ReadHexLines(Tail(lines), acc)
  ELSE LET w == PyInt(<<"0", "x">> \o Head(lines), 16)
       IN IF ~w.ok THEN [ok |-> FALSE, words |-> acc]
          ELSE ReadHexLines(Tail(lines), Append(acc, w.val))

\* Lines 171-177: the words are kept unless a line failed or none was read
Instructions(r) ==
  IF ~r.ok \/ r.words = <<>> THEN [status |-> "skipped"]
  ELSE [status |-> "ok", words |-> r.words]

\* max(map(int, inst.keys())); the keys are not empty
RECURSIVE MaxKey(_)
MaxKey(items) ==
  LET k == PyInt(items[1].key, 10).val
  IN IF Len(items) = 1 THEN k
     ELSE LET m == MaxKey(Tail(items)) IN IF k > m THEN k ELSE m

\* instructions[int(addr)] = value for each item, on a Python list
RECURSIVE StoreItems(_, _)
StoreItems(list, items) ==
  IF items = <<>> THEN [ok |-> TRUE, list |-> list]
  ELSE LET i == PyInt(items[1].key, 10).val
           n == Len(list)
       IN IF i >= n \/ i < -n THEN [ok |-> FALSE, list |-> list]
          ELSE StoreItems([list EXCEPT ![(IF i < 0 THEN i + n ELSE i) + 1] =
                                          items[1].word],
                          Tail(items))

\* Lines 181-200: the instruction words of a combined group
ReadHeader(h) ==
  IF h.kind \in {"binascii.Error", "UnicodeError", "JSONDecodeError"}
  THEN [status |-> "skipped"]
  ELSE IF \E i \in 1 .. Len(h.items) : ~PyInt(h.items[i].key, 10).ok
  THEN Raise("ValueError")
  ELSE LET n == MaxKey(h.items) + 1
           r == StoreItems([i \in 1 .. (IF n > 0 THEN n ELSE 0) |-> 0],
                           h.items)
       IN IF r.ok THEN [status |-> "ok", words |-> r.list]
          ELSE Raise("IndexError")

IsAssertLine(l) == l.kind = "assert"

\* line and not line.startswith('#')
IsCodeLine(l) ==
  l.kind \in {"label", "directive", "content"}
  \/ (l.kind = "assert" /\ ~l.hash)

\* The assertions parsed so far, or the exception parse_assertion raised
Collected(as) ==
  IF \E i \in 1 .. Len(as) : Raised(as[i]) THEN Raise("ValueError")
  ELSE [list |-> as]

\* parse_assertion on each assertion line, in source order
ParseEach(asserts) ==
  [i \in 1 .. Len(asserts) |-> parse_assertion(asserts[i].stmt)]

\* Lines 208-213: the assertions, in source order
ReadAssertions(lines) == Collected(ParseEach(SelectSeq(lines, IsAssertLine)))

\* Lines 218-232: the assembly lines; section is <<>> for None
RECURSIVE ReadAssembly(_, _, _, _)
ReadAssembly(lines, section, offset, acc) ==
  IF lines = <<>> THEN acc
  ELSE LET l == Head(lines)
       IN IF ~IsCodeLine(l) THEN ReadAssembly(Tail(lines), section, offset, acc)
          ELSE IF l.kind = "label"
          THEN ReadAssembly(Tail(lines), <<l.name>>, 0, acc)
          ELSE IF l.kind = "directive" \/ section = <<>>
          THEN ReadAssembly(Tail(lines), section, offset, acc)
          ELSE ReadAssembly(Tail(lines), section, offset + 1,
                            Append(acc, [str |-> l.kind,
                                         section |-> section[1],
                                         offset |-> offset]))

\* Lines 159-200: the instruction words, from the instruction file or from
\* the header line
ReadInstructions(g) ==
  IF g.multifile THEN Instructions(ReadHexLines(g.inst_contents, <<>>))
  ELSE ReadHeader(g.header)

\* Lines 234-247: the test entry, with the warning on a count mismatch
LoadedTest(g, words, assembly, assertions) ==
  [status |-> "loaded",
   warning |-> Len(words) # Len(assembly),
   test |-> MakeTest(g.name, words, assembly, assertions)]

\* Lines 204-247: the info file is read into the test entry
ReadInfo(g, words, assertions) ==
  IF Raised(assertions) THEN assertions
  ELSE LoadedTest(g, words, ReadAssembly(g.info_contents, <<>>, 0, <<>>),
                  assertions.list)

\* The pass goes on to the info file unless the instructions failed
AfterInstructions(g, inst) ==
  IF Raised(inst) \/ inst.status = "skipped" THEN inst
  ELSE ReadInfo(g, inst.words, ReadAssertions(g.info_contents))

\* One pass of the for loop of read_tests: the test loaded, the group
\* skipped (continue), or an exception nothing catches
LoadGroup(g) == AfterInstructions(g, ReadInstructions(g))

InstFiles ==
  {<<<<"1">>>>,
   <<<<"#", "c">>, <<"1", "F">>, <<"0">>>>,
   <<<<"1">>, <<"z">>>>,
   <<<<"1">>, <<>>>>,
   <<<<"#", "c">>>>}

Item(k, w) == [key |-> k, word |-> w]

Headers ==
  {[kind |-> "binascii.Error"], [kind |-> "UnicodeError"],
   [kind |-> "JSONDecodeError"],
   [kind |-> "json", items |-> <<Item(<<"0">>, 1), Item(<<"1">>, 2)>>],
   [kind |-> "json", items |-> <<Item(<<"1">>, 1)>>],
   [kind |-> "json", items |-> <<Item(<<"1", "a">>, 1)>>],
   [kind |-> "json", items |-> <<Item(<<"-", "1">>, 1)>>]}

GoodStatement ==
  [block |-> "rf", index |-> <<"0">>, value |-> <<"0", "x", "1">>,
   op |-> "", operand |-> <<>>]
MalformedStatement ==
  [block |-> "rf", index |-> <<"0">>, value |-> <<"1", "F">>,
   op |-> "", operand |-> <<>>]

Label == [kind |-> "label", name |-> "main"]
Content == [kind |-> "content"]
AssertLine(h, st) == [kind |-> "assert", hash |-> h, stmt |-> st]

\* Info files: as many lines as words, none, a malformed assertion, and a
\* file with lines the assembly pass drops
InfoFiles ==
  {<<Label, Content, AssertLine(TRUE, GoodStatement)>>,
   <<>>,
   <<Label, Content, Content, AssertLine(TRUE, MalformedStatement)>>,
   <<Content, [kind |-> "directive"], Label, [kind |-> "comment"],
     [kind |-> "blank"], Content, AssertLine(FALSE, GoodStatement)>>}

GroupFiles ==
  {[multifile |-> TRUE, inst_contents |-> f, info_contents |-> i] :
     f \in InstFiles, i \in InfoFiles}
  \cup
  {[multifile |-> FALSE, header |-> h, info_contents |-> i] :
     h \in Headers, i \in InfoFiles}

\* The groups parse_args hands over carry distinct names
Named(files) == [i \in 1 .. Len(files) |-> files[i] @@ [name |-> ToString(i)]]

InitLoad ==
  /\ \E files \in SeqsUpTo(GroupFiles, MaxGroups) : test_groups = Named(files)
  /\ gi = 1
  /\ tests = <<>>
  /\ load_state = "LOADING"
  /\ diag = <<>>
  /\ IdleRun
  /\ IdleParse

\* One pass of the for loop over test_groups
ReadGroup ==
  /\ load_state = "LOADING"
  /\ gi <= Len(test_groups)
  /\ \E r \in {LoadGroup(test_groups[gi])} :
        IF Raised(r)
        THEN /\ load_state' = "ABORTED"
             /\ diag' = <<"traceback">>
             /\ UNCHANGED <<tests, gi>>
        ELSE IF r.status = "skipped"
        THEN /\ diag' = <<"error_skipping_test">>
             /\ gi' = gi + 1
             /\ UNCHANGED <<tests, load_state>>
        ELSE /\ tests' = Append(tests, r.test)
             /\ diag' = IF r.warning THEN <<"warning_count_mismatch">>
                        ELSE <<>>
             /\ gi' = gi + 1
             /\ UNCHANGED load_state
  /\ UNCHANGED <<test_groups, runVars, parseVars>>

\* The end of read_tests: the summary is printed and tests returned
ReturnTests ==
  /\ load_state = "LOADING"
  /\ gi > Len(test_groups)
  /\ load_state' = "RETURNED"
  /\ diag' = IF Len(tests) = Len(test_groups) THEN <<"all_tests_loaded">>
             ELSE <<"n_tests_loaded", "warning_failed_to_load">>
  /\ UNCHANGED <<test_groups, gi, tests, runVars, parseVars>>

NextLoad == ReadGroup \/ ReturnTests

SpecLoad == InitLoad /\ [][NextLoad]_vars

\* The failures to load the claim names
IsAddress(k) == k # <<>> /\ \A i \in 1 .. Len(k) : IsDecDigit(k[i])

IsHexWord(l) == l # <<>> /\ \A i \in 1 .. Len(l) : IsHexDigit(l[i])

FailsToLoad(g) ==
  \/ /\ g.multifile
     /\ LET code == SelectSeq(g.inst_contents, LAMBDA l : l = <<>> \/ l[1] # "#")
        IN code = <<>> \/ \E i \in 1 .. Len(code) : ~IsHexWord(code[i])
  \/ /\ ~g.multifile
     /\ \/ g.header.kind # "json"
        \/ \E i \in 1 .. Len(g.header.items) : ~IsAddress(g.header.items[i].key)
  \/ \E i \in 1 .. Len(g.info_contents) :
       /\ g.info_contents[i].kind = "assert"
       /\ ~Grammatical(g.info_contents[i].stmt)

Names(seq) == [i \in 1 .. Len(seq) |-> seq[i].name]

\* C7 as stated: read_tests never aborts; it goes through every group and
\* returns, in the order given, the groups that do not fail to load.
LoadSkipsFailures ==
  /\ load_state # "ABORTED"
  /\ load_state = "RETURNED"
       => /\ gi = Len(test_groups) + 1
          /\ Names(tests)
               = Names(SelectSeq(test_groups, LAMBDA g : ~FailsToLoad(g)))

====
